---- MODULE Spec2Model ----
(***************************************************************************)
(* Model of the analysis dispatcher of the stock-research tools:           *)
(* perform_analysis (a generator) and update_visibility, over the ANALYSES *)
(* catalog of each of the four tool modules.                               *)
(*                                                                         *)
(* Strings are sequences of tokens.  A template is cut at every brace:     *)
(* "{" and "}" are tokens of their own and each maximal brace-free piece   *)
(* of text is one token.  A piece of literal text longer than 32           *)
(* characters is cut to its first 29 with "..." after them, and non-ASCII  *)
(* punctuation is written in ASCII; the "id" field of a definition, which  *)
(* no operation reads, is left out.                                        *)
(***************************************************************************)
EXTENDS Integers, Sequences, FiniteSets, TLC

(* ---------------------------------------------------------------------- *)
(* Bounds                                                                  *)
(* ---------------------------------------------------------------------- *)

(* Largest number of fragments the provider delivers on one stream. *)
MaxFragments == 2

(* Largest number of update_visibility calls in one behaviour. *)
MaxVisibilityCalls == 1

(* ---------------------------------------------------------------------- *)
(* Python values                                                           *)
(* ---------------------------------------------------------------------- *)

(* None, and a str value with its tokens. *)
PyNone == [isNone |-> TRUE, s |-> << >>]

Str(toks) == [isNone |-> FALSE, s |-> toks]

(* Truth value of an optional str: None and "" are false. *)
Truthy(v) == ~v.isNone /\ v.s # << >>

(* str.upper on one token. *)
UpperTok(tok) ==
  CASE tok = "tsla" -> "TSLA"
    [] tok = "Brk.b" -> "BRK.B"
    [] tok = "risk" -> "RISK"
    [] OTHER -> tok

(* str.upper: every token upper-cased, braces and upper-case text kept. *)
Upper(toks) == [i \in 1..Len(toks) |-> UpperTok(toks[i])]

(* ---------------------------------------------------------------------- *)
(* str.format with keywords                                                  *)
(* ---------------------------------------------------------------------- *)

FormatOk(out) == [ok |-> TRUE, out |-> out]

FormatError(cls, text) == [ok |-> FALSE, cls |-> cls, text |-> text]

(* The scan of str.format from token i on, with the output so far.  "{{"   *)
(* and "}}" are escapes; "{" name "}" is a replacement field looked up in  *)
(* kwargs; every other use of a brace is an error.                         *)
RECURSIVE FormatFrom(_, _, _, _)
FormatFrom(t, i, kwargs, out) ==
  IF i > Len(t) THEN FormatOk(out)
  ELSE IF t[i] = "{" THEN
    IF i = Len(t) THEN
      FormatError("ValueError", "Single '{' encountered in format string")
    ELSE IF t[i + 1] = "{" THEN FormatFrom(t, i + 2, kwargs, Append(out, "{"))
    ELSE IF t[i + 1] = "}" THEN
      FormatError("IndexError",
                  "Replacement index 0 out of range for positional args tuple")
    ELSE IF i + 1 = Len(t) THEN
      FormatError("ValueError", "expected '}' before end of string")
    ELSE IF t[i + 2] = "{" THEN
      FormatError("ValueError", "unexpected '{' in field name")
    ELSE IF t[i + 1] \in DOMAIN kwargs THEN
      FormatFrom(t, i + 3, kwargs, out \o kwargs[t[i + 1]])
    ELSE FormatError("KeyError", t[i + 1])
  ELSE IF t[i] = "}" THEN
    IF i < Len(t) /\ t[i + 1] = "}" THEN
      FormatFrom(t, i + 2, kwargs, Append(out, "}"))
    ELSE FormatError("ValueError", "Single '}' encountered in format string")
  ELSE FormatFrom(t, i + 1, kwargs, Append(out, t[i]))

(* Format scanning its own output a second time. *)
Format_expanding(template, kwargs) ==
  IF FormatFrom(template, 1, kwargs, << >>).ok
  THEN FormatFrom(FormatFrom(template, 1, kwargs, << >>).out, 1, kwargs, << >>)
  ELSE FormatFrom(template, 1, kwargs, << >>)

Format(template, kwargs) == FormatFrom(template, 1, kwargs, << >>)

(* ---------------------------------------------------------------------- *)
(* The catalogs                                                            *)
(* ---------------------------------------------------------------------- *)

(* src/FINAL_catch_trends_stream.py, lines 15-81: the ANALYSES list. *)
ANALYSES_FINAL_catch_trends_stream ==
  <<
  (* lines 16-24 *)
  [name |-> "Real-Time stock sentiment",
   prompt_template |-> << "Search X (Twitter) for the la...", "{", "stock", "}", " and analyze the sentiment. F..." >>,
   params |-> << "stock" >>],
  (* lines 25-32 *)
  [name |-> "Analyze current discussions on X about emerging trends in sector",
   prompt_template |-> << "Sector: ", "{", "sector", "}", " Focus: ", "{", "capfocus", "}", " Identify trending stocks and..." >>,
   params |-> << "sector", "capfocus" >>],
  (* lines 33-40 *)
  [name |-> "Track Smart Money and Influencer Moves",
   prompt_template |-> << "Search X for recent activity ...", "{", "sector", "}", "." >>,
   params |-> << "sector" >>],
  (* lines 41-48 *)
  [name |-> "Identify Stocks with Viral Momentum",
   prompt_template |-> << "Search X for stocks gaining v...", "{", "capfocus", "}", "." >>,
   params |-> << "capfocus" >>],
  (* lines 49-56 *)
  [name |-> "Monitor Breaking News and Catalysts",
   prompt_template |-> << "Search X for breaking news an...", "{", "stock", "}", " in the last 24 hours." >>,
   params |-> << "stock" >>],
  (* lines 57-64 *)
  [name |-> "Gauge Retail vs. Institutional Sentiment",
   prompt_template |-> << "Analyze the difference betwee...", "{", "stock", "}", " based on X." >>,
   params |-> << "stock" >>],
  (* lines 65-72 *)
  [name |-> "Detect Early Warning Signs and Red Flags",
   prompt_template |-> << "Search X for red flags, conce...", "{", "stock", "}", "." >>,
   params |-> << "stock" >>],
  (* lines 73-80 *)
  [name |-> "Create a Real-Time Watchlist Strategy",
   prompt_template |-> << "Help me build a system to mon...", "{", "sector", "}", " stocks for ", "{", "capfocus", "}", " with ", "{", "risk", "}", " risk." >>,
   params |-> << "capfocus", "sector", "risk" >>]
  >>

(* src/stock_and_market_research.py, lines 15-182: the ANALYSES list. *)
ANALYSES_stock_and_market_research ==
  <<
  (* lines 16-24 *)
  [name |-> "Real-Time Sentiment Pulse",
   prompt_template |-> << "Analyze X discussions about ", "{", "stock", "}", " from the last 24-48 hours.Cl..." >>,
   params |-> << "stock" >>],
  (* lines 25-33 *)
  [name |-> "Sudden Attention Spike Detector",
   prompt_template |-> << "Find stocks that saw a sudden..." >>,
   params |-> <<  >>],
  (* lines 34-41 *)
  [name |-> "Retail Before Institutions",
   prompt_template |-> << "Identify stocks where retail ..." >>,
   params |-> <<  >>],
  (* lines 42-50 *)
  [name |-> "Narrative Change Tracker",
   prompt_template |-> << "Track how the narrative around ", "{", "stock", "}", " has changed over the last 30..." >>,
   params |-> << "stock" >>],
  (* lines 51-58 *)
  [name |-> "Influencer Accumulation Signal",
   prompt_template |-> << "Detect when respected traders..." >>,
   params |-> <<  >>],
  (* lines 59-67 *)
  [name |-> "Bear-to-Bull Flip Alert",
   prompt_template |-> << "Find stocks where historicall..." >>,
   params |-> << "sector", "risk" >>],
  (* lines 68-75 *)
  [name |-> "Hidden Catalyst Discovery",
   prompt_template |-> << "Scan X for subtle mentions of..." >>,
   params |-> <<  >>],
  (* lines 76-83 *)
  [name |-> "Insider Language Pattern Scan",
   prompt_template |-> << "Analyze posts from employees,..." >>,
   params |-> <<  >>],
  (* lines 84-92 *)
  [name |-> "Volume Without News",
   prompt_template |-> << "Identify stocks with unusual ..." >>,
   params |-> <<  >>],
  (* lines 93-101 *)
  [name |-> "Sector Rotation Early Signal",
   prompt_template |-> << "Detect early chatter suggesti..." >>,
   params |-> <<  >>],
  (* lines 102-109 *)
  [name |-> "Earnings Whisper Analysis",
   prompt_template |-> << "Analyze pre-earnings discussi..." >>,
   params |-> <<  >>],
  (* lines 110-117 *)
  [name |-> "Crowded Trade Exit Signal",
   prompt_template |-> << "Find stocks where bullish sen..." >>,
   params |-> << "sector", "risk" >>],
  (* lines 118-125 *)
  [name |-> "Small-Cap Smart Money Trail",
   prompt_template |-> << "Identify small-cap stocks bei..." >>,
   params |-> <<  >>],
  (* lines 126-133 *)
  [name |-> "Fear Compression Scan",
   prompt_template |-> << "Find stocks where fear-driven..." >>,
   params |-> <<  >>],
  (* lines 134-141 *)
  [name |-> "Macro-to-Micro Translation",
   prompt_template |-> << "Translate current macro event..." >>,
   params |-> <<  >>],
  (* lines 142-149 *)
  [name |-> "Management Credibility Signal",
   prompt_template |-> << "Analyze CEO or CFO posts for ..." >>,
   params |-> <<  >>],
  (* lines 150-157 *)
  [name |-> "Early Meme Formation Detector",
   prompt_template |-> << "Identify stocks transitioning..." >>,
   params |-> <<  >>],
  (* lines 158-165 *)
  [name |-> "Regulatory Tailwind Radar",
   prompt_template |-> << "Scan policy, legal, or regula..." >>,
   params |-> <<  >>],
  (* lines 166-173 *)
  [name |-> "Global Edge Finder",
   prompt_template |-> << "Track non-US accounts discuss..." >>,
   params |-> <<  >>],
  (* lines 174-181 *)
  [name |-> "Future Price Path Simulation",
   prompt_template |-> << "Based on current sentiment, n...", "{", "stock", "}", "}", " over the next 3-6 months." >>,
   params |-> << "stock" >>]
  >>

(* src/stock_and_sector_research.py, lines 15-152: the ANALYSES list. *)
ANALYSES_stock_and_sector_research ==
  <<
  (* lines 16-33 *)
  [name |-> "Real-Time stock sentiment",
   prompt_template |-> << "Search X (Twitter) for the la...", "{", "stock", "}", " and analyze the sentiment. F..." >>,
   params |-> << "stock" >>],
  (* lines 34-53 *)
  [name |-> "Analyze current discussions on X about emerging trends in sector",
   prompt_template |-> << "Analyze current discussions o...", "{", "sector", "}", ". Sector: ", "{", "sector", "}", " Focus: ", "{", "capfocus", "}", " Identify: 1. What trends are..." >>,
   required_params |-> << "sector", "capfocus" >>],
  (* lines 54-61 *)
  [name |-> "Track Smart Money and Influencer Moves",
   prompt_template |-> << "Search X for recent activity ...", "{", "sector", "}", "." >>,
   params |-> << "sector" >>],
  (* lines 62-84 *)
  [name |-> "Identify Stocks with Viral Momentum",
   prompt_template |-> << "Search X for stocks that are ..." >>,
   required_params |-> <<  >>],
  (* lines 85-92 *)
  [name |-> "Monitor Breaking News and Catalysts",
   prompt_template |-> << "Search X for breaking news an...", "{", "stock", "}", " in the last 24 hours." >>,
   params |-> << "stock" >>],
  (* lines 93-100 *)
  [name |-> "Gauge Retail vs. Institutional Sentiment",
   prompt_template |-> << "Analyze the difference betwee...", "{", "stock", "}", " based on X." >>,
   params |-> << "stock" >>],
  (* lines 101-108 *)
  [name |-> "Detect Early Warning Signs and Red Flags",
   prompt_template |-> << "Search X for red flags, conce...", "{", "stock", "}", "." >>,
   params |-> << "stock" >>],
  (* lines 109-129 *)
  [name |-> "Create a Real-Time Watchlist Strategy",
   prompt_template |-> << "Help me build a system to mon...", "{", "sector", "}", " Risk tolerance: ", "{", "risk", "}", " Create a framework for: 1. W..." >>,
   required_params |-> << "sector", "risk" >>],
  (* lines 130-151 *)
  [name |-> "Recent Activity by Sector",
   prompt_template |-> << "Search X for recent activity ...", "{", "sector", "}", " Focus on: Prominent investor..." >>,
   required_params |-> << "sector" >>]
  >>

(* src/ResearchEngine/stock_and_market_research.py, lines 15-354: the ANALYSES list. *)
ANALYSES_ResearchEngine_stock_and_market_research ==
  <<
  (* lines 16-33 *)
  [name |-> "Real-Time stock sentiment",
   prompt_template |-> << "Search X (Twitter) for the la...", "{", "stock", "}", " and analyze the sentiment. F..." >>,
   params |-> << "stock" >>],
  (* lines 34-42 *)
  [name |-> "Sudden Attention Spike Detector",
   prompt_template |-> << "Find stocks that saw a sudden..." >>,
   params |-> <<  >>],
  (* lines 43-50 *)
  [name |-> "Retail Before Institutions",
   prompt_template |-> << "Identify stocks where retail ..." >>,
   params |-> <<  >>],
  (* lines 51-59 *)
  [name |-> "Narrative Change Tracker",
   prompt_template |-> << "Track how the narrative around ", "{", "stock", "}", " has changed over the last 30..." >>,
   params |-> << "stock" >>],
  (* lines 60-67 *)
  [name |-> "Influencer Accumulation Signal",
   prompt_template |-> << "Detect when respected traders..." >>,
   params |-> <<  >>],
  (* lines 68-76 *)
  [name |-> "Bear-to-Bull Flip Alert",
   prompt_template |-> << "Find stocks where historicall..." >>,
   params |-> << "sector", "risk" >>],
  (* lines 77-84 *)
  [name |-> "Hidden Catalyst Discovery",
   prompt_template |-> << "Scan X for subtle mentions of..." >>,
   params |-> <<  >>],
  (* lines 85-92 *)
  [name |-> "Insider Language Pattern Scan",
   prompt_template |-> << "Analyze posts from employees,..." >>,
   params |-> <<  >>],
  (* lines 93-101 *)
  [name |-> "Volume Without News",
   prompt_template |-> << "Identify stocks with unusual ..." >>,
   params |-> <<  >>],
  (* lines 102-110 *)
  [name |-> "Sector Rotation Early Signal",
   prompt_template |-> << "Detect early chatter suggesti..." >>,
   params |-> <<  >>],
  (* lines 111-118 *)
  [name |-> "Earnings Whisper Analysis",
   prompt_template |-> << "Analyze pre-earnings discussi..." >>,
   params |-> <<  >>],
  (* lines 119-126 *)
  [name |-> "Crowded Trade Exit Signal",
   prompt_template |-> << "Find stocks where bullish sen..." >>,
   params |-> <<  >>],
  (* lines 127-134 *)
  [name |-> "Small-Cap Smart Money Trail",
   prompt_template |-> << "Identify small-cap stocks bei..." >>,
   params |-> <<  >>],
  (* lines 135-142 *)
  [name |-> "Fear Compression Scan",
   prompt_template |-> << "Find stocks where fear-driven..." >>,
   params |-> <<  >>],
  (* lines 143-150 *)
  [name |-> "Macro-to-Micro Translation",
   prompt_template |-> << "Translate current macro event..." >>,
   params |-> <<  >>],
  (* lines 151-158 *)
  [name |-> "Management Credibility Signal",
   prompt_template |-> << "Analyze CEO or CFO posts for ..." >>,
   params |-> <<  >>],
  (* lines 159-166 *)
  [name |-> "Early Meme Formation Detector",
   prompt_template |-> << "Identify stocks transitioning..." >>,
   params |-> <<  >>],
  (* lines 167-174 *)
  [name |-> "Regulatory Tailwind Radar",
   prompt_template |-> << "Scan policy, legal, or regula..." >>,
   params |-> <<  >>],
  (* lines 175-182 *)
  [name |-> "Global Edge Finder",
   prompt_template |-> << "Track non-US accounts discuss..." >>,
   params |-> <<  >>],
  (* lines 183-190 *)
  [name |-> "Future Price Path Simulation",
   prompt_template |-> << "Based on current sentiment, n...", "{", "stock", "}", " over the next 3-6 months." >>,
   params |-> << "stock" >>],
  (* lines 191-210 *)
  [name |-> "Analyze current discussions on X about emerging trends in sector",
   prompt_template |-> << "Analyze current discussions o...", "{", "sector", "}", ". Sector: ", "{", "sector", "}", " Focus: ", "{", "capfocus", "}", " Identify: 1. What trends are..." >>,
   params |-> << "sector", "capfocus" >>],
  (* lines 211-234 *)
  [name |-> "Identify Stocks with Viral Momentum",
   prompt_template |-> << "Search X for stocks that are ...", "{", "capfocus", "}", " Criteria: - Sudden spike in ..." >>,
   params |-> << "capfocus" >>],
  (* lines 235-252 *)
  [name |-> "Monitor Breaking News and Catalysts",
   prompt_template |-> << "Search X for breaking news an...", "{", "stock", "}", " in the last 24 hours.Focus o..." >>,
   params |-> << "stock" >>],
  (* lines 253-260 *)
  [name |-> "Gauge Retail vs. Institutional Sentiment",
   prompt_template |-> << "Analyze the difference betwee...", "{", "stock", "}", " based on X." >>,
   params |-> << "stock" >>],
  (* lines 261-268 *)
  [name |-> "Detect Early Warning Signs and Red Flags",
   prompt_template |-> << "Search X for red flags, conce...", "{", "stock", "}", "." >>,
   params |-> << "stock" >>],
  (* lines 269-290 *)
  [name |-> "Create a Real-Time Watchlist Strategy",
   prompt_template |-> << "Help me build a system to mon...", "{", "sector", "}", " Risk tolerance: ", "{", "risk", "}", " Focus: ", "{", "capfocus", "}", " Create a framework for: 1. W..." >>,
   params |-> << "sector", "risk", "capfocus" >>],
  (* lines 291-312 *)
  [name |-> "Recent Activity by Sector",
   prompt_template |-> << "Search X for recent activity ...", "{", "sector", "}", " Focus on: Prominent investor..." >>,
   params |-> << "sector" >>],
  (* lines 313-328 *)
  [name |-> "Why is this stock moving",
   prompt_template |-> << "Analyze the main drivers behind ", "{", "stock", "}", "'s price action since [specif..." >>,
   params |-> << "stock" >>],
  (* lines 329-353 *)
  [name |-> "Generate a Real-Time Watchlist by Risk Level for Stocks Under $10",
   prompt_template |-> << "Search X and use web search t...", "{", "risk", "}", " (e.g., if ", "{", "risk", "}", " is 'medium', filter for medi...", "{", "risk", "}", ") 6. Suggested watch levels (..." >>,
   params |-> << "risk" >>]
  >>

(* The four tool modules; each defines its own ANALYSES and the same two  *)
(* functions over it.                                                      *)
Modules ==
  {"FINAL_catch_trends_stream", "stock_and_market_research",
   "stock_and_sector_research", "ResearchEngine/stock_and_market_research"}

(* The catalogs with a last definition that repeats the first name. *)
Catalog_repeated_name(m) ==
  LET c == CASE m = "FINAL_catch_trends_stream" ->
                  ANALYSES_FINAL_catch_trends_stream
             [] m = "stock_and_market_research" ->
                  ANALYSES_stock_and_market_research
             [] m = "stock_and_sector_research" ->
                  ANALYSES_stock_and_sector_research
             [] m = "ResearchEngine/stock_and_market_research" ->
                  ANALYSES_ResearchEngine_stock_and_market_research
  IN Append(c, [c[Len(c)] EXCEPT !.name = c[1].name])

Catalog(m) ==
  CASE m = "FINAL_catch_trends_stream" -> ANALYSES_FINAL_catch_trends_stream
    [] m = "stock_and_market_research" -> ANALYSES_stock_and_market_research
    [] m = "stock_and_sector_research" -> ANALYSES_stock_and_sector_research
    [] m = "ResearchEngine/stock_and_market_research" ->
         ANALYSES_ResearchEngine_stock_and_market_research

(* ---------------------------------------------------------------------- *)
(* Messages and exceptions                                                 *)
(* ---------------------------------------------------------------------- *)

(* Line breaks, the emoji and the backquotes of the messages are left out. *)
ConfigErrorMessage ==
  << "### Error", "XAI_API_KEY not found in environment variables." >>

InvalidSelectionMessage == << "Invalid Selection." >>

(* The f-string of the handler: label, str(e), and the traceback block. *)
ErrorMessage(e) ==
  << "### Error", e.text,
     "Traceback (most recent call last): ", e.cls, ": ", e.text >>

NoExc == [cls |-> "", text |-> ""]

(* What the constructor of the client may raise. *)
ClientErrors == {[cls |-> "ValueError", text |-> "invalid channel options"]}

(* What the service may raise on chat.create and on the stream. *)
ServiceErrors == {[cls |-> "RpcError", text |-> "DEADLINE_EXCEEDED"]}

(* The classes below Exception among those that occur. *)
ExceptionSubclasses == {"ValueError", "KeyError", "IndexError", "RpcError"}

(* A handler for ValueError only. *)
Catches_ValueError_only(cls) == cls = "ValueError"

(* except Exception *)
Catches(cls) == cls \in ExceptionSubclasses

(* ---------------------------------------------------------------------- *)
(* Inputs                                                                  *)
(* ---------------------------------------------------------------------- *)

Names(catalog) == {catalog[i].name : i \in 1..Len(catalog)}

(* A selection: any catalog name, a name outside it, "" or None. *)
NameInputs(catalog) ==
  {Str(<< n >>) : n \in Names(catalog) \cup {"Nonexistent"}}
    \cup {Str(<< >>), PyNone}

StockInputs == {PyNone, Str(<< >>), Str(<< "tsla" >>)}

SectorInputs ==
  {PyNone, Str(<< >>), Str(<< "Tech" >>), Str(<< "{", "risk", "}" >>)}

CapfocusInputs == {PyNone, Str(<< "small-cap" >>)}

RiskInputs == {PyNone, Str(<< "high" >>)}

KeyInputs == {PyNone, Str(<< >>), Str(<< "xai-key" >>)}

(* chunk.content of a fragment *)
FragmentContents == {Str(<< >>), Str(<< "Hello" >>), Str(<< " world" >>)}

(* ---------------------------------------------------------------------- *)
(* State                                                                   *)
(* ---------------------------------------------------------------------- *)

VARIABLES
  module,      \* the tool module that is running
  xai_api_key, \* the credential read at start-up
  ANALYSES,    \* the catalog of the module
  runs,        \* the invocations of perform_analysis, one record each
  calls,       \* the update_visibility calls made, with their outcomes
  vision       \* the call of process_image of the chart tool

vars == << module, xai_api_key, ANALYSES, runs, calls, vision >>

Runs == {"a", "b"}

Unbound == [unbound |-> TRUE]

IdleRun ==
  [pc |-> "idle",
   analysis_name |-> PyNone, stock |-> PyNone, sector |-> PyNone,
   capfocus |-> PyNone, risk_level |-> PyNone,
   selected |-> 0, format_params |-> Unbound,
   prompt |-> << >>, chat |-> << >>, full_text |-> << >>,
   exc |-> NoExc, yields |-> << >>, received |-> << >>,
   clients |-> 0, requests |-> 0, streams |-> 0,
   stream_open |-> FALSE, raised |-> FALSE]

(* process_image has not been called. *)
IdleVision ==
  [pc |-> "idle", image |-> "", reply |-> Unbound, analysis |-> Unbound,
   annotated_image |-> Unbound, explanation |-> Unbound,
   result |-> Unbound, requests |-> 0, draws |-> 0, raised |-> ""]

Init ==
  /\ module \in Modules
  /\ xai_api_key \in KeyInputs
  /\ ANALYSES = Catalog(module)
  /\ runs = [r \in Runs |-> IdleRun]
  /\ calls = << >>
  /\ vision = IdleVision

(* ---------------------------------------------------------------------- *)
(* perform_analysis                                                        *)
(* ---------------------------------------------------------------------- *)

(* a["name"] == analysis_name *)
NameEq(a, v) == ~v.isNone /\ v.s = << a.name >>

(* Lookup falling back to the first definition when no name matches. *)
Lookup_default_first(catalog, v) ==
  IF \E i \in 1..Len(catalog) : NameEq(catalog[i], v)
  THEN CHOOSE i \in 1..Len(catalog) :
         /\ NameEq(catalog[i], v)
         /\ \A j \in 1..(i - 1) : ~NameEq(catalog[j], v)
  ELSE 1

(* next((a for a in ANALYSES if a["name"] == name), None): the result is  *)
(* a reference to an element of the list, held as its index, 0 for None.  *)
Lookup(catalog, v) ==
  IF \E i \in 1..Len(catalog) : NameEq(catalog[i], v)
  THEN CHOOSE i \in 1..Len(catalog) :
         /\ NameEq(catalog[i], v)
         /\ \A j \in 1..(i - 1) : ~NameEq(catalog[j], v)
  ELSE 0

(* FormatParams without the upper-casing of the stock. *)
FormatParams_no_upper(stock, sector, capfocus, risk_level) ==
  [stock |-> IF Truthy(stock) THEN stock.s ELSE << "N/A" >>,
   sector |-> IF Truthy(sector) THEN sector.s ELSE << "unspecified" >>,
   capfocus |-> IF Truthy(capfocus) THEN capfocus.s ELSE << "unspecified" >>,
   risk |-> IF Truthy(risk_level) THEN risk_level.s ELSE << "medium" >>]

(* FormatParams with the risk under the name of the argument. *)
FormatParams_risk_level_key(stock, sector, capfocus, risk_level) ==
  [stock |-> IF Truthy(stock) THEN Upper(stock.s) ELSE << "N/A" >>,
   sector |-> IF Truthy(sector) THEN sector.s ELSE << "unspecified" >>,
   capfocus |-> IF Truthy(capfocus) THEN capfocus.s ELSE << "unspecified" >>,
   risk_level |-> IF Truthy(risk_level) THEN risk_level.s ELSE << "medium" >>]

(* The dict literal of format_params. *)
FormatParams(stock, sector, capfocus, risk_level) ==
  [stock |-> IF Truthy(stock) THEN Upper(stock.s) ELSE << "N/A" >>,
   sector |-> IF Truthy(sector) THEN sector.s ELSE << "unspecified" >>,
   capfocus |-> IF Truthy(capfocus) THEN capfocus.s ELSE << "unspecified" >>,
   risk |-> IF Truthy(risk_level) THEN risk_level.s ELSE << "medium" >>]

SystemInstruction ==
  << "You are a senior equity analyst. Format your report for a clean display. Use # for title, ## for sections, and Markdown TABLES for data comparison. Bold ticker symbols like **$TSLA**." >>

Step(r, rec) ==
  /\ runs' = [runs EXCEPT ![r] = rec]
  /\ UNCHANGED << module, xai_api_key, ANALYSES, calls, vision >>

(* The call, with its five arguments: the generator object is made, no   *)
(* line of the body runs.                                                 *)
Call(r) ==
  /\ runs[r].pc = "idle"
  /\ \E name \in NameInputs(ANALYSES), stock \in StockInputs,
        sector \in SectorInputs, capfocus \in CapfocusInputs,
        risk_level \in RiskInputs :
       Step(r, [runs[r] EXCEPT !.pc = "L84", !.analysis_name = name,
                  !.stock = stock, !.sector = sector,
                  !.capfocus = capfocus, !.risk_level = risk_level])

(* CheckKey testing the key against None only: an empty key passes. *)
CheckKey_none_only(r) ==
  /\ runs[r].pc = "L84"
  /\ IF xai_api_key = PyNone
     THEN Step(r, [runs[r] EXCEPT !.pc = "L85",
                     !.yields = Append(@, ConfigErrorMessage)])
     ELSE Step(r, [runs[r] EXCEPT !.pc = "L88"])

(* if not xai_api_key: yield ... *)
CheckKey(r) ==
  /\ runs[r].pc = "L84"
  /\ IF ~Truthy(xai_api_key)
     THEN Step(r, [runs[r] EXCEPT !.pc = "L85",
                     !.yields = Append(@, ConfigErrorMessage)])
     ELSE Step(r, [runs[r] EXCEPT !.pc = "L88"])

(* Select moving the definition it has found to the head of the catalog. *)
Select_moving_to_front(r) ==
  /\ runs[r].pc = "L88"
  /\ LET selected == Lookup(ANALYSES, runs[r].analysis_name)
     IN IF selected = 0
        THEN /\ runs' = [runs EXCEPT ![r] =
                           [runs[r] EXCEPT !.pc = "L90", !.selected = selected,
                              !.yields = Append(@, InvalidSelectionMessage)]]
             /\ UNCHANGED ANALYSES
        ELSE /\ runs' = [runs EXCEPT ![r] =
                           [runs[r] EXCEPT !.pc = "L93", !.selected = 1]]
             /\ ANALYSES' = << ANALYSES[selected] >>
                              \o SubSeq(ANALYSES, 1, selected - 1)
                              \o SubSeq(ANALYSES, selected + 1, Len(ANALYSES))
  /\ UNCHANGED << module, xai_api_key, calls, vision >>

(* selected = next(...); if not selected: yield "Invalid Selection." *)
Select(r) ==
  /\ runs[r].pc = "L88"
  /\ LET selected == Lookup(ANALYSES, runs[r].analysis_name)
     IN IF selected = 0
        THEN Step(r, [runs[r] EXCEPT !.pc = "L90", !.selected = selected,
                        !.yields = Append(@, InvalidSelectionMessage)])
        ELSE Step(r, [runs[r] EXCEPT !.pc = "L93", !.selected = selected])

(* BuildParams taking only the parameters the definition recognizes. *)
BuildParams_recognized(r) ==
  /\ runs[r].pc = "L93"
  /\ LET params == IF "params" \in DOMAIN ANALYSES[runs[r].selected]
                   THEN ANALYSES[runs[r].selected].params ELSE << >>
         Taken(slot, v) == IF \E k \in 1..Len(params) : params[k] = slot
                           THEN v ELSE PyNone
     IN Step(r, [runs[r] EXCEPT !.pc = "L101",
                   !.format_params =
                      FormatParams(Taken("stock", runs[r].stock),
                                   Taken("sector", runs[r].sector),
                                   Taken("capfocus", runs[r].capfocus),
                                   Taken("risk", runs[r].risk_level))])

(* format_params = {...} *)
BuildParams(r) ==
  /\ runs[r].pc = "L93"
  /\ Step(r, [runs[r] EXCEPT !.pc = "L101",
                !.format_params = FormatParams(runs[r].stock, runs[r].sector,
                                    runs[r].capfocus, runs[r].risk_level)])

(* client = Client(api_key=xai_api_key, timeout=300) *)
ConstructClient(r) ==
  /\ runs[r].pc = "L101"
  /\ \/ Step(r, [runs[r] EXCEPT !.pc = "L102", !.clients = @ + 1])
     \/ \E e \in ClientErrors :
          Step(r, [runs[r] EXCEPT !.pc = "L124", !.exc = e])

(* Render putting the sector after the rendered template, whatever the   *)
(* template refers to.                                                    *)
Render_with_sector(r) ==
  /\ runs[r].pc = "L102"
  /\ LET res == Format(ANALYSES[runs[r].selected].prompt_template,
                       runs[r].format_params)
     IN IF res.ok
        THEN Step(r, [runs[r] EXCEPT !.pc = "L104",
                        !.prompt = res.out \o runs[r].format_params.sector])
        ELSE Step(r, [runs[r] EXCEPT !.pc = "L124",
                        !.exc = [cls |-> res.cls, text |-> res.text]])

(* Render sending the template as it stands when it cannot be rendered. *)
Render_lenient(r) ==
  /\ runs[r].pc = "L102"
  /\ LET res == Format(ANALYSES[runs[r].selected].prompt_template,
                       runs[r].format_params)
     IN IF res.ok
        THEN Step(r, [runs[r] EXCEPT !.pc = "L104", !.prompt = res.out])
        ELSE Step(r, [runs[r] EXCEPT !.pc = "L104",
                        !.prompt = ANALYSES[runs[r].selected].prompt_template])

(* prompt = selected["prompt_template"].format of format_params *)
Render(r) ==
  /\ runs[r].pc = "L102"
  /\ LET res == Format(ANALYSES[runs[r].selected].prompt_template,
                       runs[r].format_params)
     IN IF res.ok
        THEN Step(r, [runs[r] EXCEPT !.pc = "L104", !.prompt = res.out])
        ELSE Step(r, [runs[r] EXCEPT !.pc = "L124",
                        !.exc = [cls |-> res.cls, text |-> res.text]])

(* chat = client.chat.create(model=..., tools=[...]) *)
CreateChat(r) ==
  /\ runs[r].pc = "L104"
  /\ \/ Step(r, [runs[r] EXCEPT !.pc = "L109", !.requests = @ + 1])
     \/ \E e \in ServiceErrors :
          Step(r, [runs[r] EXCEPT !.pc = "L124", !.requests = @ + 1,
                     !.exc = e])

(* AppendMessages sending the template as it stands. *)
AppendMessages_unrendered(r) ==
  /\ runs[r].pc = "L109"
  /\ Step(r, [runs[r] EXCEPT !.pc = "L119",
                !.chat = << [role |-> "system", content |-> SystemInstruction],
                            [role |-> "user",
                             content |-> ANALYSES[runs[r].selected].prompt_template] >>,
                !.full_text = << >>])

(* chat.append(system(...)); chat.append(user(prompt)); full_text = "" *)
AppendMessages(r) ==
  /\ runs[r].pc = "L109"
  /\ Step(r, [runs[r] EXCEPT !.pc = "L119",
                !.chat = << [role |-> "system", content |-> SystemInstruction],
                            [role |-> "user", content |-> runs[r].prompt] >>,
                !.full_text = << >>])

(* for response, chunk in chat.stream(): the stream is opened *)
OpenStream(r) ==
  /\ runs[r].pc = "L119"
  /\ Step(r, [runs[r] EXCEPT !.pc = "L119_next", !.streams = @ + 1,
                !.stream_open = TRUE])

(* StreamFragment yielding the fragment instead of the accumulator. *)
StreamFragment_delta(r) ==
  /\ runs[r].pc = "L119_next"
  /\ Len(runs[r].received) < MaxFragments
  /\ \E content \in FragmentContents :
     IF Truthy(content)
     THEN Step(r, [runs[r] EXCEPT !.pc = "L122",
                     !.received = Append(@, content),
                     !.full_text = @ \o content.s,
                     !.yields = Append(@, content.s)])
     ELSE Step(r, [runs[r] EXCEPT !.received = Append(@, content)])

(* StreamFragment yielding on every fragment, empty ones too. *)
StreamFragment_every(r) ==
  /\ runs[r].pc = "L119_next"
  /\ Len(runs[r].received) < MaxFragments
  /\ \E content \in FragmentContents :
       Step(r, [runs[r] EXCEPT !.pc = "L122",
                  !.received = Append(@, content),
                  !.full_text = @ \o content.s,
                  !.yields = Append(@, runs[r].full_text \o content.s)])

(* StreamFragment with one accumulator for all invocations, as a         *)
(* module-level full_text would be.                                       *)
StreamFragment_shared(r) ==
  /\ runs[r].pc = "L119_next"
  /\ Len(runs[r].received) < MaxFragments
  /\ \E content \in FragmentContents :
     /\ runs' = [q \in Runs |->
                   IF q # r
                   THEN [runs[q] EXCEPT !.full_text = runs[r].full_text \o content.s]
                   ELSE IF Truthy(content)
                        THEN [runs[r] EXCEPT !.pc = "L122",
                                !.received = Append(@, content),
                                !.full_text = @ \o content.s,
                                !.yields = Append(@, runs[r].full_text \o content.s)]
                        ELSE [runs[r] EXCEPT !.received = Append(@, content)]]
     /\ UNCHANGED << module, xai_api_key, ANALYSES, calls, vision >>

(* one fragment arrives: if chunk.content: full_text += ...; yield full_text *)
StreamFragment(r) ==
  /\ runs[r].pc = "L119_next"
  /\ Len(runs[r].received) < MaxFragments
  /\ \E content \in FragmentContents :
     IF Truthy(content)
     THEN Step(r, [runs[r] EXCEPT !.pc = "L122",
                     !.received = Append(@, content),
                     !.full_text = @ \o content.s,
                     !.yields = Append(@, runs[r].full_text \o content.s)])
     ELSE Step(r, [runs[r] EXCEPT !.received = Append(@, content)])

(* Resume ending the run after the first snapshot, the stream left open. *)
Resume_finishing(r) ==
  /\ runs[r].pc = "L122"
  /\ Step(r, [runs[r] EXCEPT !.pc = "done"])

(* the consumer asks for the next value after a snapshot *)
Resume(r) ==
  /\ runs[r].pc = "L122"
  /\ Step(r, [runs[r] EXCEPT !.pc = "L119_next"])

(* the provider signals the end of the stream: the loop and the body end *)
StreamEnd(r) ==
  /\ runs[r].pc = "L119_next"
  /\ Step(r, [runs[r] EXCEPT !.pc = "done", !.stream_open = FALSE])

(* StreamRaise with one retry of the request. *)
StreamRaise_retry(r) ==
  /\ runs[r].pc = "L119_next"
  /\ \E e \in ServiceErrors :
       IF runs[r].requests < 2
       THEN Step(r, [runs[r] EXCEPT !.pc = "L104", !.stream_open = FALSE])
       ELSE Step(r, [runs[r] EXCEPT !.pc = "L124", !.exc = e,
                       !.stream_open = FALSE])

(* the stream raises *)
StreamRaise(r) ==
  /\ runs[r].pc = "L119_next"
  /\ \E e \in ServiceErrors :
       Step(r, [runs[r] EXCEPT !.pc = "L124", !.exc = e,
                  !.stream_open = FALSE])

(* HandleException yielding the message after the accumulated text. *)
HandleException_appending(r) ==
  /\ runs[r].pc = "L124"
  /\ IF Catches(runs[r].exc.cls)
     THEN Step(r, [runs[r] EXCEPT !.pc = "L125",
                     !.yields = Append(@, runs[r].full_text
                                            \o ErrorMessage(runs[r].exc))])
     ELSE Step(r, [runs[r] EXCEPT !.pc = "done", !.raised = TRUE])

(* except Exception as e: yield f"### Error ..." *)
HandleException(r) ==
  /\ runs[r].pc = "L124"
  /\ IF Catches(runs[r].exc.cls)
     THEN Step(r, [runs[r] EXCEPT !.pc = "L125",
                     !.yields = Append(@, ErrorMessage(runs[r].exc))])
     ELSE Step(r, [runs[r] EXCEPT !.pc = "done", !.raised = TRUE])

(* the consumer asks for the next value after a message: return, or the  *)
(* end of the body                                                        *)
Return(r) ==
  /\ runs[r].pc \in {"L85", "L90", "L125"}
  /\ Step(r, [runs[r] EXCEPT !.pc = "done"])

(* the consumer closes the generator while it is suspended at the yield  *)
(* of line 122: GeneratorExit is raised there, the except clause of line *)
(* 124 is tried, and the frame is left. No with, finally or close() holds *)
(* the stream of line 119: whether it is closed is left to the           *)
(* finalisation of the abandoned iterator, which may or may not happen.  *)
Abandon(r) ==
  /\ runs[r].pc = "L122"
  /\ IF Catches("GeneratorExit")
     THEN Step(r, [runs[r] EXCEPT !.pc = "L125",
                     !.exc = [cls |-> "GeneratorExit", text |-> ""],
                     !.yields = Append(@, ErrorMessage([cls |-> "GeneratorExit",
                                                         text |-> ""]))])
     ELSE \E released \in BOOLEAN :
            Step(r, [runs[r] EXCEPT !.pc = "closed",
                       !.stream_open = ~released])

RunStep(r) ==
  \/ Call(r)
  \/ CheckKey(r)
  \/ Select(r)
  \/ BuildParams(r)
  \/ ConstructClient(r)
  \/ Render(r)
  \/ CreateChat(r)
  \/ AppendMessages(r)
  \/ OpenStream(r)
  \/ StreamFragment(r)
  \/ Resume(r)
  \/ StreamEnd(r)
  \/ StreamRaise(r)
  \/ HandleException(r)
  \/ Return(r)
  \/ Abandon(r)

(* One invocation at a time. *)
Next == RunStep("a")

Spec == Init /\ [][Next]_vars

(* ---------------------------------------------------------------------- *)
(* Two invocations at the same time                                        *)
(* ---------------------------------------------------------------------- *)

(* Two entries of the selection list and a name outside it. *)
NameInputsTwo(catalog) ==
  {Str(<< catalog[1].name >>), Str(<< catalog[2].name >>),
   Str(<< "Nonexistent" >>)}

(* run_btn.click: the call with a ticker and a sector typed in, the two  *)
(* other fields left alone.                                               *)
CallTwo(r) ==
  /\ runs[r].pc = "idle"
  /\ \E name \in NameInputsTwo(ANALYSES) :
       Step(r, [runs[r] EXCEPT !.pc = "L84", !.analysis_name = name,
                  !.stock = Str(<< "tsla" >>), !.sector = Str(<< "Tech" >>),
                  !.capfocus = PyNone, !.risk_level = PyNone])

(* The steps of one invocation that is consumed to its end. *)
RunStepTwo(r) ==
  \/ CallTwo(r)
  \/ CheckKey(r)
  \/ Select(r)
  \/ BuildParams(r)
  \/ ConstructClient(r)
  \/ Render(r)
  \/ CreateChat(r)
  \/ AppendMessages(r)
  \/ OpenStream(r)
  \/ StreamFragment(r)
  \/ Resume(r)
  \/ StreamEnd(r)
  \/ StreamRaise(r)
  \/ HandleException(r)
  \/ Return(r)

(* Two users press the button: the steps of the two generators interleave. *)
NextTwo == \E r \in Runs : RunStepTwo(r)

SpecTwo == Init /\ [][NextTwo]_vars

(* Two invocations of the first tool that differ in the selection and in *)
(* the sector typed in, one of the sectors written like a placeholder.   *)
CallPair(r) ==
  /\ runs[r].pc = "idle"
  /\ \E name \in {Str(<< ANALYSES[1].name >>), Str(<< ANALYSES[2].name >>)},
        sector \in {Str(<< "Tech" >>), Str(<< "{", "risk", "}" >>)} :
       Step(r, [runs[r] EXCEPT !.pc = "L84", !.analysis_name = name,
                  !.stock = Str(<< "tsla" >>), !.sector = sector,
                  !.capfocus = PyNone, !.risk_level = PyNone])

RunStepPair(r) ==
  \/ CallPair(r)
  \/ CheckKey(r)
  \/ Select(r)
  \/ BuildParams(r)
  \/ ConstructClient(r)
  \/ Render(r)
  \/ CreateChat(r)
  \/ AppendMessages(r)
  \/ OpenStream(r)
  \/ StreamFragment(r)
  \/ Resume(r)
  \/ StreamEnd(r)
  \/ StreamRaise(r)
  \/ HandleException(r)
  \/ Return(r)

NextPair == \E r \in Runs : RunStepPair(r)

(* The first tool with its credential set. *)
InitPair ==
  /\ Init
  /\ module = "FINAL_catch_trends_stream"
  /\ xai_api_key = Str(<< "xai-key" >>)

SpecPair == InitPair /\ [][NextPair]_vars

(* An invocation of any definition with a ticker and a sector that may   *)
(* be written like the risk placeholder, and the risk "high".            *)
CallBraces(r) ==
  /\ runs[r].pc = "idle"
  /\ \E n \in Names(ANALYSES),
        stock \in {Str(<< "tsla" >>), Str(<< "{", "risk", "}" >>)},
        sector \in {Str(<< "Tech" >>), Str(<< "{", "risk", "}" >>)} :
       Step(r, [runs[r] EXCEPT !.pc = "L84", !.analysis_name = Str(<< n >>),
                  !.stock = stock, !.sector = sector,
                  !.capfocus = PyNone, !.risk_level = Str(<< "high" >>)])

RunStepBraces(r) ==
  \/ CallBraces(r)
  \/ CheckKey(r)
  \/ Select(r)
  \/ BuildParams(r)
  \/ ConstructClient(r)
  \/ Render(r)
  \/ CreateChat(r)
  \/ AppendMessages(r)
  \/ OpenStream(r)
  \/ StreamFragment(r)
  \/ Resume(r)
  \/ StreamEnd(r)
  \/ StreamRaise(r)
  \/ HandleException(r)
  \/ Return(r)

NextBraces == RunStepBraces("a")

SpecBraces == Init /\ [][NextBraces]_vars

(* One invocation whose consumer keeps asking for the next value and     *)
(* whose provider ends the stream or raises after finitely many fragments. *)
NextLive == RunStepTwo("a")

SpecLive == Init /\ [][NextLive]_vars /\ WF_vars(NextLive)

(* ---------------------------------------------------------------------- *)
(* update_visibility                                                       *)
(* ---------------------------------------------------------------------- *)

(* x in params *)
In(x, list) == \E i \in 1..Len(list) : list[i] = x

(* VisibilityUpdates with the flags of stock and sector interchanged. *)
VisibilityUpdates_swapped(params) ==
  << [visible |-> In("sector", params)],
     [visible |-> In("stock", params)],
     [visible |-> In("capfocus", params)],
     [visible |-> In("risk", params)] >>

(* gr.update(visible=...) for the four fields, in the order of the list   *)
(* that is returned.                                                      *)
VisibilityUpdates(params) ==
  << [visible |-> In("stock", params)],
     [visible |-> In("sector", params)],
     [visible |-> In("capfocus", params)],
     [visible |-> In("risk", params)] >>

(* The outcome of update_visibility(choice): the list returned, or the    *)
(* KeyError of selected["params"] when the definition has no such key.    *)
update_visibility(catalog, choice) ==
  LET selected == Lookup(catalog, choice)
  IN IF selected = 0
     THEN [raised |-> "", value |-> VisibilityUpdates(<< >>)]
     ELSE IF "params" \in DOMAIN catalog[selected]
     THEN [raised |-> "", value |-> VisibilityUpdates(catalog[selected].params)]
     ELSE [raised |-> "KeyError", value |-> << >>]

(* choices=[a["name"] for a in ANALYSES] *)
Choices(catalog) == [i \in 1..Len(catalog) |-> catalog[i].name]

(* value=ANALYSES[0]["name"] *)
DefaultSelection(catalog) == catalog[1].name

(* InitialVisibility with the four fields shown. *)
InitialVisibility_all_shown ==
  << [visible |-> TRUE], [visible |-> TRUE],
     [visible |-> TRUE], [visible |-> TRUE] >>

(* The visible= arguments the four input fields are constructed with. *)
InitialVisibility ==
  << [visible |-> TRUE], [visible |-> FALSE],
     [visible |-> FALSE], [visible |-> FALSE] >>

(* The change handler of the selection runs update_visibility. *)
UpdateVisibility ==
  /\ Len(calls) < MaxVisibilityCalls
  /\ \E choice \in NameInputs(ANALYSES) :
       calls' = Append(calls, [choice |-> choice,
                                 outcome |-> update_visibility(ANALYSES, choice)])
  /\ UNCHANGED << module, xai_api_key, ANALYSES, runs, vision >>

NextVisibility == UpdateVisibility

SpecVisibility == Init /\ [][NextVisibility]_vars

(* A session of one tool: selections are changed and an analysis is run, *)
(* in any order.                                                          *)
NextSession == RunStepTwo("a") \/ UpdateVisibility

(* The sessions of the first tool and of the tool whose catalog has      *)
(* definitions without a params list.                                     *)
InitSession ==
  /\ Init
  /\ module \in {"FINAL_catch_trends_stream", "stock_and_sector_research"}

SpecSession == InitSession /\ [][NextSession]_vars


(* ---------------------------------------------------------------------- *)
(* UIpatternsfromimage: process_image                                      *)
(* ---------------------------------------------------------------------- *)

MaxPatterns == 2

MaxTrendlines == 2

ImageInputs == {"chart.png"}

(* Trendlines as the instruction of lines 57-59 asks for them. *)
LineInputs ==
  {[x1 |-> 100, y1 |-> 200, x2 |-> 400, y2 |-> 150],
   [x1 |-> 0, y1 |-> 50, x2 |-> 60, y2 |-> 50]}

(* confidence, in hundredths: 0.05 and 0.85 *)
ConfidenceInputs == {5, 85}

TrendlineLists == UNION {[1..n -> LineInputs] : n \in 0..MaxTrendlines}

(* A pattern of the reply, with or without its "trendlines" key. *)
PatternInputs ==
  {[name |-> "Falling Wedge", confidence |-> c, breakout_bias |-> "bullish"] :
     c \in ConfidenceInputs}
  \cup {[name |-> "Falling Wedge", confidence |-> c,
         breakout_bias |-> "bullish", trendlines |-> t] :
          c \in ConfidenceInputs, t \in TrendlineLists}

PatternLists == UNION {[1..n -> PatternInputs] : n \in 0..MaxPatterns}

(* The JSON objects a reply may hold: with or without "analysis", with   *)
(* or without "patterns", and one whose trendline lacks a coordinate.     *)
Documents ==
  {[analysis |-> "Falling wedge near support."]}
  \cup {[patterns |-> p] : p \in PatternLists}
  \cup {[analysis |-> "Falling wedge near support.", patterns |-> p] :
          p \in PatternLists}
  \cup {[analysis |-> "Falling wedge near support.",
         patterns |-> << [name |-> "Falling Wedge", confidence |-> 85,
                          breakout_bias |-> "bullish",
                          trendlines |-> << [x1 |-> 100, y1 |-> 200,
                                             x2 |-> 400] >>] >>]}

(* response.choices[0].message.content: the text of a JSON object, or    *)
(* text that is no JSON.                                                  *)
ReplyContents ==
  {[json |-> TRUE, value |-> d] : d \in Documents}
  \cup {[json |-> FALSE, text |-> "Sorry, I cannot read this chart."]}

VisionErrors == {"APIConnectionError"}

(* json.loads(content) *)
JsonLoads(content) ==
  IF content.json
  THEN [raised |-> "", value |-> content.value]
  ELSE [raised |-> "JSONDecodeError", value |-> Unbound]

(* ax.plot([line["x1"], line["x2"]], [line["y1"], line["y2"]], linewidth=3) *)
Plot(line) ==
  [xs |-> << line.x1, line.x2 >>, ys |-> << line.y1, line.y2 >>,
   linewidth |-> 3]

HasCoordinates(line) == {"x1", "x2", "y1", "y2"} \subseteq DOMAIN line

(* Trendlines leaving out the patterns of a confidence under 0.5. *)
Trendlines_confident(pattern) ==
  IF "trendlines" \in DOMAIN pattern /\ pattern.confidence >= 50
  THEN pattern.trendlines ELSE << >>

(* pattern.get("trendlines", []) *)
Trendlines(pattern) ==
  IF "trendlines" \in DOMAIN pattern THEN pattern.trendlines ELSE << >>

(* the two loops of lines 96-102, from trendline l of pattern p on *)
RECURSIVE PlotFrom(_, _, _, _)
PlotFrom(patterns, p, l, lines) ==
  IF p > Len(patterns) THEN [raised |-> "", lines |-> lines]
  ELSE IF l > Len(Trendlines(patterns[p]))
       THEN PlotFrom(patterns, p + 1, 1, lines)
  ELSE IF ~HasCoordinates(Trendlines(patterns[p])[l])
       THEN [raised |-> "KeyError", lines |-> lines]
  ELSE PlotFrom(patterns, p, l + 1,
                Append(lines, Plot(Trendlines(patterns[p])[l])))

(* draw_annotations: the image with the plotted lines over it *)
draw_annotations(image, analysis_json) ==
  LET res == IF "patterns" \in DOMAIN analysis_json
             THEN PlotFrom(analysis_json.patterns, 1, 1, << >>)
             ELSE [raised |-> "", lines |-> << >>]
  IN [raised |-> res.raised,
      value |-> IF res.raised = ""
                THEN [image |-> image, lines |-> res.lines] ELSE Unbound]

(* analysis.get("analysis", "No analysis returned.") *)
Explanation(analysis) ==
  IF "analysis" \in DOMAIN analysis THEN analysis.analysis
  ELSE "No analysis returned."

(* the upload: process_image(image) is called *)
ProcessImage ==
  /\ vision.pc = "idle"
  /\ \E image \in ImageInputs :
       vision' = [vision EXCEPT !.pc = "L119", !.image = image]
  /\ UNCHANGED << module, xai_api_key, ANALYSES, runs, calls >>

(* AnalyzeChart taking a reply that is no JSON as a reply without        *)
(* patterns.                                                              *)
AnalyzeChart_degrading ==
  /\ vision.pc = "L119"
  /\ \/ \E e \in VisionErrors :
          vision' = [vision EXCEPT !.pc = "done", !.requests = @ + 1,
                       !.raised = e]
     \/ \E content \in ReplyContents :
          LET res == JsonLoads(content)
          IN IF res.raised = ""
             THEN vision' = [vision EXCEPT !.pc = "L120", !.requests = @ + 1,
                               !.reply = content, !.analysis = res.value]
             ELSE vision' = [vision EXCEPT !.pc = "L120", !.requests = @ + 1,
                               !.reply = content,
                               !.analysis = [patterns |-> << >>]]
  /\ UNCHANGED << module, xai_api_key, ANALYSES, runs, calls >>

(* analysis = analyze_chart_with_openai(image): one request, whose reply *)
(* is parsed; the request or the parsing may raise.                       *)
AnalyzeChart ==
  /\ vision.pc = "L119"
  /\ \/ \E e \in VisionErrors :
          vision' = [vision EXCEPT !.pc = "done", !.requests = @ + 1,
                       !.raised = e]
     \/ \E content \in ReplyContents :
          LET res == JsonLoads(content)
          IN IF res.raised = ""
             THEN vision' = [vision EXCEPT !.pc = "L120", !.requests = @ + 1,
                               !.reply = content, !.analysis = res.value]
             ELSE vision' = [vision EXCEPT !.pc = "done", !.requests = @ + 1,
                               !.reply = content, !.raised = res.raised]
  /\ UNCHANGED << module, xai_api_key, ANALYSES, runs, calls >>

(* annotated_image = draw_annotations(image, analysis) *)
DrawAnnotations ==
  /\ vision.pc = "L120"
  /\ LET res == draw_annotations(vision.image, vision.analysis)
     IN IF res.raised = ""
        THEN vision' = [vision EXCEPT !.pc = "L122", !.draws = @ + 1,
                          !.annotated_image = res.value]
        ELSE vision' = [vision EXCEPT !.pc = "done", !.draws = @ + 1,
                          !.raised = res.raised]
  /\ UNCHANGED << module, xai_api_key, ANALYSES, runs, calls >>

(* explanation = analysis.get("analysis", "No analysis returned.") *)
Explain ==
  /\ vision.pc = "L122"
  /\ vision' = [vision EXCEPT !.pc = "L124",
                  !.explanation = Explanation(vision.analysis)]
  /\ UNCHANGED << module, xai_api_key, ANALYSES, runs, calls >>

(* return explanation, annotated_image *)
ReturnPair ==
  /\ vision.pc = "L124"
  /\ vision' = [vision EXCEPT !.pc = "done",
                  !.result = << vision.explanation, vision.annotated_image >>]
  /\ UNCHANGED << module, xai_api_key, ANALYSES, runs, calls >>

NextImage ==
  \/ ProcessImage
  \/ AnalyzeChart
  \/ DrawAnnotations
  \/ Explain
  \/ ReturnPair

(* The chart tool is a script of its own: it loads no catalog and reads  *)
(* the OpenAI credential of line 17, not the xAI one.                     *)
InitImage ==
  /\ Init
  /\ module = "FINAL_catch_trends_stream"
  /\ xai_api_key = PyNone

SpecImage == InitImage /\ [][NextImage]_vars
(* ---------------------------------------------------------------------- *)
(* Properties                                                              *)
(* ---------------------------------------------------------------------- *)

(* The name is the name of a catalog entry. *)
InCatalog(v) ==
  /\ ~v.isNone
  /\ Len(v.s) = 1
  /\ \E i \in 1..Len(ANALYSES) : ANALYSES[i].name = v.s[1]

CredentialSet == xai_api_key \notin {PyNone, Str(<< >>)}

Invoked(r) == runs[r].pc # "idle"

Ended(r) == runs[r].pc = "done"

NoServiceUse(r) ==
  /\ runs[r].clients = 0
  /\ runs[r].requests = 0
  /\ runs[r].streams = 0
  /\ runs[r].chat = << >>

(* u is t with a non-empty suffix appended. *)
StrictExtension(t, u) ==
  /\ Len(u) > Len(t)
  /\ \A i \in 1..Len(t) : u[i] = t[i]

(* C1: with a credential, a run on a name that is not the name of a       *)
(* catalog entry (the empty and the missing selection included) yields    *)
(* nothing but the one message "Invalid Selection.", has yielded exactly  *)
(* that when it has ended, raises nothing, constructs no client and       *)
(* issues no request, whatever the four parameters are.                   *)
C1_InvalidSelection ==
  \A r \in Runs :
    (Invoked(r) /\ CredentialSet /\ ~InCatalog(runs[r].analysis_name)) =>
      /\ NoServiceUse(r)
      /\ ~runs[r].raised
      /\ runs[r].exc = NoExc
      /\ runs[r].yields \in {<< >>, << InvalidSelectionMessage >>}
      /\ runs[r].pc \in {"L84", "L88", "L90", "done"}
      /\ runs[r].pc \in {"L90", "done"} =>
           runs[r].yields = << InvalidSelectionMessage >>

(* A run on the missing selection, with parameters given, has ended. *)
C1_Witness ==
  \E r \in Runs :
    /\ Ended(r) /\ CredentialSet
    /\ runs[r].analysis_name = PyNone
    /\ runs[r].stock = Str(<< "tsla" >>)
    /\ runs[r].risk_level = Str(<< "high" >>)
    /\ runs[r].yields = << InvalidSelectionMessage >>

(* C2: without a credential (unset or empty), a run yields nothing but    *)
(* the one configuration-error message, has yielded exactly that when it  *)
(* has ended, never looks the name up (so an unknown name gives this      *)
(* message too and not "Invalid Selection."), and attempts no request,    *)
(* for every name and every parameter combination.                        *)
C2_MissingCredential ==
  \A r \in Runs :
    (Invoked(r) /\ ~CredentialSet) =>
      /\ NoServiceUse(r)
      /\ ~runs[r].raised
      /\ runs[r].exc = NoExc
      /\ runs[r].selected = 0
      /\ runs[r].yields \in {<< >>, << ConfigErrorMessage >>}
      /\ runs[r].pc \in {"L84", "L85", "done"}
      /\ runs[r].pc \in {"L85", "done"} =>
           runs[r].yields = << ConfigErrorMessage >>

(* A run without a credential on a name outside the catalog has ended. *)
C2_Witness ==
  \E r \in Runs :
    /\ Ended(r) /\ xai_api_key = PyNone
    /\ runs[r].analysis_name = Str(<< "Nonexistent" >>)
    /\ runs[r].yields = << ConfigErrorMessage >>

(* C3: as long as no exception has occurred in a run that found its       *)
(* definition, and so in every successful run, each yield after the first *)
(* is the yield before it with a non-empty suffix appended.               *)
C3_PrefixMonotonic ==
  \A r \in Runs :
    (CredentialSet /\ runs[r].selected # 0 /\ runs[r].exc = NoExc) =>
      \A i \in 2..Len(runs[r].yields) :
        StrictExtension(runs[r].yields[i - 1], runs[r].yields[i])

(* A successful run that has yielded two snapshots, the second the first  *)
(* with the next fragment appended.                                       *)
C3_Witness ==
  \E r \in Runs :
    /\ Ended(r) /\ runs[r].exc = NoExc
    /\ runs[r].yields = << << "Hello" >>, << "Hello", " world" >> >>

AbsentOrEmpty(v) == v = PyNone \/ v = Str(<< >>)

ParamsBuilt(r) == runs[r].format_params # Unbound

(* C4: once built, the substitution map has exactly the keys stock,       *)
(* sector, capfocus and risk; stock is "N/A" for an absent or empty       *)
(* argument and the argument upper-cased otherwise ("tsla" gives "TSLA"); *)
(* sector and capfocus are "unspecified" and risk is "medium" for an      *)
(* absent or empty argument and the argument itself otherwise.            *)
C4_SubstitutionMap ==
  \A r \in Runs :
    ParamsBuilt(r) =>
      LET fp == runs[r].format_params
          ru == runs[r]
      IN /\ DOMAIN fp = {"stock", "sector", "capfocus", "risk"}
         /\ AbsentOrEmpty(ru.stock) => fp.stock = << "N/A" >>
         /\ ~AbsentOrEmpty(ru.stock) =>
              /\ Len(fp.stock) = Len(ru.stock.s)
              /\ \A i \in 1..Len(fp.stock) : fp.stock[i] = UpperTok(ru.stock.s[i])
         /\ ru.stock = Str(<< "tsla" >>) => fp.stock = << "TSLA" >>
         /\ AbsentOrEmpty(ru.sector) => fp.sector = << "unspecified" >>
         /\ ~AbsentOrEmpty(ru.sector) => fp.sector = ru.sector.s
         /\ AbsentOrEmpty(ru.capfocus) => fp.capfocus = << "unspecified" >>
         /\ ~AbsentOrEmpty(ru.capfocus) => fp.capfocus = ru.capfocus.s
         /\ AbsentOrEmpty(ru.risk_level) => fp.risk = << "medium" >>
         /\ ~AbsentOrEmpty(ru.risk_level) => fp.risk = ru.risk_level.s

(* The map of the scenario: stock "tsla", the other three unset. *)
C4_Witness ==
  \E r \in Runs :
    /\ runs[r].stock = Str(<< "tsla" >>)
    /\ runs[r].sector = PyNone /\ runs[r].capfocus = PyNone
    /\ runs[r].risk_level = PyNone
    /\ runs[r].format_params =
         [stock |-> << "TSLA" >>, sector |-> << "unspecified" >>,
          capfocus |-> << "unspecified" >>, risk |-> << "medium" >>]

(* C5: rendering the template of a catalog definition with the map of the *)
(* four keys never raises a missing-key error: no run, on any definition  *)
(* of any of the catalogs, has a KeyError as its exception, and with the  *)
(* map a run has just built the rendering of every definition of the      *)
(* catalog is a prompt or an error other than KeyError.                   *)
C5_NoMissingKey ==
  /\ \A r \in Runs : runs[r].exc.cls # "KeyError"
  /\ \A r \in Runs :
       runs[r].pc = "L101" =>
         \A i \in 1..Len(ANALYSES) :
           LET res == Format(ANALYSES[i].prompt_template, runs[r].format_params)
           IN res.ok \/ res.cls # "KeyError"

(* The rendering has failed with another error than a missing key: the    *)
(* definition with a stray closing brace after its placeholder.           *)
C5_Witness ==
  \E r \in Runs :
    /\ module = "stock_and_market_research"
    /\ runs[r].analysis_name = Str(<< "Future Price Path Simulation" >>)
    /\ runs[r].exc.cls = "ValueError"
    /\ runs[r].clients = 1

(* The snapshots a run yields for the fragments it has received: the      *)
(* running concatenations of the non-empty ones.                          *)
RECURSIVE SnapshotsFrom(_, _, _)
SnapshotsFrom(received, i, acc) ==
  IF i > Len(received) THEN << >>
  ELSE IF AbsentOrEmpty(received[i]) THEN SnapshotsFrom(received, i + 1, acc)
  ELSE << acc \o received[i].s >>
         \o SnapshotsFrom(received, i + 1, acc \o received[i].s)

Snapshots(received) == SnapshotsFrom(received, 1, << >>)

Failed(r) == runs[r].exc # NoExc

(* C6: no exception leaves a run.  A run in which the construction of the *)
(* client, the rendering, the chat request or the stream has raised after *)
(* k snapshots has, once the handler has run, yielded those k snapshots   *)
(* and then exactly one more value, the message with the error label and  *)
(* the text of the exception; it has nothing more when it has ended.      *)
C6_ExceptionsCaught ==
  \A r \in Runs :
    /\ ~runs[r].raised
    /\ Failed(r) =>
         /\ runs[r].pc \in {"L124", "L125", "done"}
         /\ runs[r].pc = "L124" => runs[r].yields = Snapshots(runs[r].received)
         /\ runs[r].pc \in {"L125", "done"} =>
              /\ runs[r].yields =
                   Snapshots(runs[r].received) \o << ErrorMessage(runs[r].exc) >>
              /\ ErrorMessage(runs[r].exc)[1] = "### Error"
              /\ ErrorMessage(runs[r].exc)[2] = runs[r].exc.text

(* A run whose stream raised after two snapshots has ended. *)
C6_Witness ==
  \E r \in Runs :
    /\ Ended(r) /\ Failed(r)
    /\ runs[r].exc \in ServiceErrors
    /\ Len(runs[r].yields) = 3
    /\ runs[r].yields[2] = << "Hello", " world" >>

Last(s) == s[Len(s)]

(* C7 as stated: when the stream fails after some text has streamed, the  *)
(* final value yielded is the accumulated text followed by the error      *)
(* message.                                                               *)
C7_ErrorAppendedToText ==
  \A r \in Runs :
    (Failed(r) /\ runs[r].pc \in {"L125", "done"} /\ runs[r].full_text # << >>) =>
      Last(runs[r].yields) = runs[r].full_text \o ErrorMessage(runs[r].exc)

(* C7, amended: when the stream fails after some text has streamed, the   *)
(* final value yielded is the error message alone (label, exception text  *)
(* and traceback), built without the accumulated text, which is the value *)
(* yielded just before it.                                                *)
C7_ErrorReplacesText ==
  \A r \in Runs :
    (Failed(r) /\ runs[r].pc \in {"L125", "done"} /\ runs[r].full_text # << >>) =>
      /\ Last(runs[r].yields) = ErrorMessage(runs[r].exc)
      /\ Len(runs[r].yields) >= 2
      /\ runs[r].yields[Len(runs[r].yields) - 1] = runs[r].full_text

(* A stream has failed after "Hello" had streamed and the message is out. *)
C7_Witness ==
  \E r \in Runs :
    /\ Failed(r) /\ runs[r].pc = "L125"
    /\ runs[r].full_text = << "Hello" >>
    /\ runs[r].yields = << << "Hello" >>, ErrorMessage(runs[r].exc) >>

(* The template with each placeholder, an opening brace, a key and a      *)
(* closing brace, replaced by the entry of the map under that key.        *)
RECURSIVE Substituted(_, _, _)
Substituted(template, i, map) ==
  IF i > Len(template) THEN << >>
  ELSE IF /\ i + 2 <= Len(template)
          /\ template[i] = "{"
          /\ template[i + 1] \in DOMAIN map
          /\ template[i + 2] = "}"
  THEN map[template[i + 1]] \o Substituted(template, i + 3, map)
  ELSE << template[i] >> \o Substituted(template, i + 1, map)

HasPlaceholder(template, key) ==
  \E i \in 1..(Len(template) - 2) :
    template[i] = "{" /\ template[i + 1] = key /\ template[i + 2] = "}"

(* t occurs in u as a run of consecutive tokens. *)
Contains(u, t) ==
  \E k \in 0..(Len(u) - Len(t)) : \A i \in 1..Len(t) : u[k + i] = t[i]

(* The definition a run is about. *)
Definition(r) == ANALYSES[runs[r].selected]

(* C8: the user turn a run sends is the template of the selected          *)
(* definition with every placeholder replaced by the entry of the         *)
(* substitution map; when the template has the stock placeholder and the  *)
(* stock argument is not empty, the turn contains the upper-cased stock   *)
(* ("Real-Time stock sentiment" with "tsla" gives a turn with "TSLA").    *)
C8_PromptIsRenderedTemplate ==
  \A r \in Runs :
    runs[r].chat # << >> =>
      LET turn == runs[r].chat[Len(runs[r].chat)]
          template == Definition(r).prompt_template
      IN /\ turn.role = "user"
         /\ \A i \in 1..(Len(runs[r].chat) - 1) : runs[r].chat[i].role # "user"
         /\ turn.content = Substituted(template, 1, runs[r].format_params)
         /\ (HasPlaceholder(template, "stock") /\ ~AbsentOrEmpty(runs[r].stock)) =>
              Contains(turn.content, Upper(runs[r].stock.s))
         /\ (/\ runs[r].analysis_name = Str(<< "Real-Time stock sentiment" >>)
             /\ runs[r].stock = Str(<< "tsla" >>)) =>
              \E i \in 1..Len(turn.content) : turn.content[i] = "TSLA"

(* The scenario: "Real-Time stock sentiment" with stock "tsla" and the    *)
(* others unset has sent its user turn.                                   *)
C8_Witness ==
  \E r \in Runs :
    /\ module = "FINAL_catch_trends_stream"
    /\ runs[r].analysis_name = Str(<< "Real-Time stock sentiment" >>)
    /\ runs[r].stock = Str(<< "tsla" >>)
    /\ runs[r].sector = PyNone /\ runs[r].capfocus = PyNone
    /\ runs[r].risk_level = PyNone
    /\ Len(runs[r].chat) = 2
    /\ runs[r].chat[2].content[2] = "TSLA"

(* The template of the run has been rendered. *)
Rendered(r) == runs[r].prompt # << >>

Recognized(name, slot) ==
  \E i \in 1..Len(ANALYSES) :
    /\ << ANALYSES[i].name >> = name.s /\ ~name.isNone
    /\ "params" \in DOMAIN ANALYSES[i]
    /\ \E k \in 1..Len(ANALYSES[i].params) : ANALYSES[i].params[k] = slot

(* The modules whose update_visibility the claim C10 is drawn from. *)
C10_Modules ==
  {"FINAL_catch_trends_stream", "ResearchEngine/stock_and_market_research"}

(* C10: update_visibility returns four flags, for stock, sector, capfocus *)
(* and risk in this order, each true exactly when the slot is listed      *)
(* among the recognized parameters of the definition with the name given; *)
(* for a name outside the catalog all four are false.  In the modules the *)
(* claim is drawn from every call returns.                                *)
C10_VisibilityFlags ==
  \A n \in 1..Len(calls) :
    LET call == calls[n]
        flags == call.outcome.value
    IN /\ module \in C10_Modules => call.outcome.raised = ""
       /\ call.outcome.raised = "" =>
            /\ Len(flags) = 4
            /\ flags[1].visible <=> Recognized(call.choice, "stock")
            /\ flags[2].visible <=> Recognized(call.choice, "sector")
            /\ flags[3].visible <=> Recognized(call.choice, "capfocus")
            /\ flags[4].visible <=> Recognized(call.choice, "risk")
            /\ ~InCatalog(call.choice) =>
                 \A k \in 1..4 : flags[k].visible = FALSE

(* A call for a definition with three of the four slots, which it lists   *)
(* in another order than that of the flags.                               *)
C10_Witness ==
  /\ module = "FINAL_catch_trends_stream"
  /\ \E n \in 1..Len(calls) :
       /\ calls[n].choice = Str(<< "Create a Real-Time Watchlist Strategy" >>)
       /\ calls[n].outcome.value =
            << [visible |-> FALSE], [visible |-> TRUE],
               [visible |-> TRUE], [visible |-> TRUE] >>

(* C11: in the catalog of every module no two definitions have the same   *)
(* name, so the definition a run has selected by first match is the only  *)
(* one with the name it was given.                                        *)
C11_UniqueNames ==
  /\ Cardinality({ANALYSES[i].name : i \in 1..Len(ANALYSES)}) = Len(ANALYSES)
  /\ \A r \in Runs :
       runs[r].selected # 0 =>
         \A j \in 1..Len(ANALYSES) :
           << ANALYSES[j].name >> = runs[r].analysis_name.s => j = runs[r].selected

(* A run has selected the last definition of the largest catalog. *)
C11_Witness ==
  \E r \in Runs :
    /\ module = "ResearchEngine/stock_and_market_research"
    /\ runs[r].selected = Len(ANALYSES)
    /\ runs[r].selected = 29

(* The names of the placeholders that occur in a template. *)
Placeholders(template) ==
  {template[i + 1] : i \in {k \in 1..(Len(template) - 2) :
                              /\ template[k] = "{"
                              /\ template[k + 1] \notin {"{", "}"}
                              /\ template[k + 2] = "}"}}

(* C12: for every definition of the catalog the list of recognized        *)
(* parameters is exactly the set of the placeholders of its template.     *)
C12_ParamsArePlaceholders ==
  \A i \in 1..Len(ANALYSES) :
    /\ "params" \in DOMAIN ANALYSES[i]
    /\ {ANALYSES[i].params[k] : k \in 1..Len(ANALYSES[i].params)}
         = Placeholders(ANALYSES[i].prompt_template)


(* ---------------------------------------------------------------------- *)
(* C13                                                                     *)
(* ---------------------------------------------------------------------- *)

(* What an invocation that runs alone has yielded when it stands where   *)
(* rec stands, from its own arguments, its own fragments and its own      *)
(* exception.                                                             *)
AloneYields(rec) ==
  IF rec.pc \in {"idle", "L84"} THEN << >>
  ELSE IF ~Truthy(xai_api_key) THEN << ConfigErrorMessage >>
  ELSE IF rec.pc = "L88" THEN << >>
  ELSE IF Lookup(ANALYSES, rec.analysis_name) = 0
       THEN << InvalidSelectionMessage >>
  ELSE Snapshots(rec.received)
         \o (IF rec.exc # NoExc /\ rec.pc \in {"L125", "done"}
             THEN << ErrorMessage(rec.exc) >> ELSE << >>)

(* A step of one invocation leaves every other invocation as it was. *)
OneRunSteps ==
  \E r \in Runs : \A q \in Runs \ {r} : runs'[q] = runs[q]

(* C13: two invocations of perform_analysis running at the same time     *)
(* share no mutable state. Each constructs at most one client and makes  *)
(* at most one request and one stream of its own, no step of one changes *)
(* anything of the other, and under every interleaving each has yielded  *)
(* exactly what it yields alone on its own fragments.                     *)
C13_NoSharedState ==
  /\ [](\A r \in Runs :
          /\ runs[r].yields = AloneYields(runs[r])
          /\ runs[r].clients <= 1
          /\ runs[r].requests <= 1
          /\ runs[r].streams <= 1)
  /\ [][OneRunSteps]_vars

(* Both invocations are suspended at the yield of line 122, each with a  *)
(* different text, and one of them has yielded twice.                     *)
C13_Witness ==
  /\ runs["a"].pc = "L122"
  /\ runs["b"].pc = "L122"
  /\ Len(runs["a"].yields) = 2
  /\ Len(runs["b"].yields) = 1
  /\ runs["a"].full_text # runs["b"].full_text
  /\ runs["a"].analysis_name # runs["b"].analysis_name

(* ---------------------------------------------------------------------- *)
(* C14                                                                     *)
(* ---------------------------------------------------------------------- *)

(* The trendlines of a reply, pattern after pattern from pattern p on. *)
RECURSIVE ReplyTrendlinesFrom(_, _)
ReplyTrendlinesFrom(doc, p) ==
  IF "patterns" \notin DOMAIN doc THEN << >>
  ELSE IF p > Len(doc.patterns) THEN << >>
  ELSE (IF "trendlines" \in DOMAIN doc.patterns[p]
        THEN doc.patterns[p].trendlines ELSE << >>)
         \o ReplyTrendlinesFrom(doc, p + 1)

ReplyTrendlines(doc) == ReplyTrendlinesFrom(doc, 1)

(* Every trendline of the reply has its four coordinates. *)
WellFormedReply(doc) ==
  \A k \in 1..Len(ReplyTrendlines(doc)) :
    DOMAIN ReplyTrendlines(doc)[k] = {"x1", "y1", "x2", "y2"}

ImageReturned == vision.pc = "done" /\ vision.raised = ""

(* C14: for a parsed reply whose trendlines are well formed,             *)
(* process_image raises nothing in draw_annotations and returns the      *)
(* reply's analysis field (the fixed text when the reply has none) with  *)
(* the uploaded image on which one segment is drawn per trendline, in    *)
(* the order of the reply, from (x1,y1) to (x2,y2): as many segments as  *)
(* trendlines, whatever the confidence and however often a line repeats, *)
(* and none without patterns or trendlines.                               *)
C14_OneSegmentPerTrendline ==
  (vision.analysis # Unbound /\ WellFormedReply(vision.analysis)) =>
    /\ vision.raised = ""
    /\ ImageReturned =>
         LET expected == ReplyTrendlines(vision.analysis)
             drawn == vision.result[2].lines
         IN /\ vision.result[1] =
                 (IF "analysis" \in DOMAIN vision.analysis
                  THEN vision.analysis.analysis ELSE "No analysis returned.")
            /\ vision.result[2].image = vision.image
            /\ Len(drawn) = Len(expected)
            /\ \A k \in 1..Len(expected) :
                 /\ drawn[k].xs = << expected[k].x1, expected[k].x2 >>
                 /\ drawn[k].ys = << expected[k].y1, expected[k].y2 >>

(* A call has returned for a reply of two patterns, one of confidence    *)
(* 0.05 and one of 0.85, that hold the same trendline: it is drawn twice. *)
C14_Witness ==
  /\ ImageReturned
  /\ {"analysis", "patterns"} \subseteq DOMAIN vision.analysis
  /\ Len(vision.analysis.patterns) = 2
  /\ vision.analysis.patterns[1].confidence = 5
  /\ vision.analysis.patterns[2].confidence = 85
  /\ Len(vision.result[2].lines) = 2
  /\ vision.result[2].lines[1] = vision.result[2].lines[2]
  /\ vision.result[2].lines[1].xs = << 100, 400 >>
  /\ vision.result[2].lines[1].ys = << 200, 150 >>

(* ---------------------------------------------------------------------- *)
(* C15                                                                     *)
(* ---------------------------------------------------------------------- *)

(* The contents of the fragments that are not empty, in arrival order. *)
NonEmptyContents(received) ==
  SelectSeq(received, LAMBDA c : ~AbsentOrEmpty(c))

(* The concatenation of the first n contents. *)
RECURSIVE ConcatFirst(_, _)
ConcatFirst(contents, n) ==
  IF n = 0 THEN << >> ELSE ConcatFirst(contents, n - 1) \o contents[n].s

(* The stream of the run has been opened and nothing has been raised. *)
Succeeding(r) == runs[r].streams = 1 /\ runs[r].exc = NoExc

(* C15: in a run that succeeds, the number of yields is the number of    *)
(* fragments received with non-empty content, the i-th yield is the      *)
(* concatenation of the first i non-empty contents, and the accumulator  *)
(* is the concatenation of all of them: an empty fragment adds no yield  *)
(* and leaves the accumulator, and a stream without a non-empty fragment *)
(* gives no yield at all.                                                 *)
C15_YieldPerNonEmptyFragment ==
  \A r \in Runs :
    Succeeding(r) =>
      LET contents == NonEmptyContents(runs[r].received)
      IN /\ Len(runs[r].yields) = Len(contents)
         /\ \A i \in 1..Len(contents) :
              runs[r].yields[i] = ConcatFirst(contents, i)
         /\ runs[r].full_text = ConcatFirst(contents, Len(contents))

(* A run has ended after an empty fragment and a non-empty one: it has   *)
(* yielded once.                                                          *)
C15_Witness ==
  \E r \in Runs :
    /\ Succeeding(r)
    /\ Ended(r)
    /\ Len(runs[r].received) = 2
    /\ AbsentOrEmpty(runs[r].received[1])
    /\ ~AbsentOrEmpty(runs[r].received[2])
    /\ Len(runs[r].yields) = 1

(* ---------------------------------------------------------------------- *)
(* C16                                                                     *)
(* ---------------------------------------------------------------------- *)

(* The run has constructed its client and gone past line 102 with a      *)
(* template that format cannot render with its map.                       *)
RenderingFailed(r) ==
  /\ runs[r].selected # 0
  /\ ParamsBuilt(r)
  /\ runs[r].clients = 1
  /\ runs[r].pc \notin {"L101", "L102"}
  /\ ~Format(Definition(r).prompt_template, runs[r].format_params).ok

(* C16: when the rendering of the selected template fails, the run goes  *)
(* to the handler with the exception of format, creates no chat request, *)
(* opens no stream and sends no message, although its client has been    *)
(* constructed; it yields one value only, the error message, and ends.   *)
C16_RenderFailure ==
  \A r \in Runs :
    RenderingFailed(r) =>
      /\ runs[r].pc \in {"L124", "L125", "done"}
      /\ runs[r].exc.cls \in {"ValueError", "KeyError", "IndexError"}
      /\ runs[r].requests = 0
      /\ runs[r].streams = 0
      /\ ~runs[r].stream_open
      /\ runs[r].chat = << >>
      /\ runs[r].received = << >>
      /\ ~runs[r].raised
      /\ runs[r].pc = "L124" => runs[r].yields = << >>
      /\ runs[r].pc \in {"L125", "done"} =>
           runs[r].yields = << ErrorMessage(runs[r].exc) >>

(* The run of the definition whose template has an unmatched closing     *)
(* brace has ended with the one message.                                  *)
C16_Witness ==
  \E r \in Runs :
    /\ RenderingFailed(r)
    /\ Ended(r)
    /\ module = "stock_and_market_research"
    /\ runs[r].selected = 20
    /\ runs[r].exc.cls = "ValueError"
    /\ Len(runs[r].yields) = 1

(* ---------------------------------------------------------------------- *)
(* C17                                                                     *)
(* ---------------------------------------------------------------------- *)

(* C17: update_visibility is total and without side effect: every call,  *)
(* for a name of the catalog or any other, has returned its four flags   *)
(* and raised nothing, and the catalog is the one the module started with. *)
C17_VisibilityTotal ==
  /\ ANALYSES = Catalog(module)
  /\ \A i \in 1..Len(calls) :
       /\ calls[i].outcome.raised = ""
       /\ Len(calls[i].outcome.value) = 4

(* ---------------------------------------------------------------------- *)
(* C18                                                                     *)
(* ---------------------------------------------------------------------- *)

(* Where a run stands: Idle before the call, Requesting from the call    *)
(* until the stream of line 119 is opened, Streaming while the loop over *)
(* the stream runs (the handler of an exception raised there included),  *)
(* Failed once a message of lines 85, 90 or 125 has been yielded,        *)
(* Completed once the body has ended without any of them.                *)
Phase(r) ==
  IF runs[r].pc = "idle" THEN "Idle"
  ELSE IF runs[r].pc \in {"L85", "L90", "L125"} THEN "Failed"
  ELSE IF runs[r].pc = "done" /\ (runs[r].exc # NoExc \/ runs[r].selected = 0)
       THEN "Failed"
  ELSE IF runs[r].pc = "done" THEN "Completed"
  ELSE IF runs[r].streams > 0 THEN "Streaming"
  ELSE "Requesting"

PhaseSteps ==
  {<< "Idle", "Requesting" >>,
   << "Requesting", "Streaming" >>, << "Requesting", "Failed" >>,
   << "Streaming", "Completed" >>, << "Streaming", "Failed" >>}

Terminal(r) == Phase(r) \in {"Completed", "Failed"}

Abandoned(r) == runs[r].pc = "closed"

(* After the abandonment the run has taken no further fragment and has   *)
(* yielded no error message: its yields are the snapshots of what it had *)
(* received, and no exception is recorded.                                *)
AbandonedQuietly(r) ==
  /\ runs[r].yields = Snapshots(runs[r].received)
  /\ ~AbsentOrEmpty(Last(runs[r].received))
  /\ runs[r].exc = NoExc
  /\ ~runs[r].raised

(* C19: a run that the consumer abandons after a yield and before the    *)
(* end of the stream has released its open stream, consumes no further   *)
(* fragment and yields no error message.                                  *)
C19_AbandonReleasesStream ==
  \A r \in Runs :
    Abandoned(r) => (~runs[r].stream_open /\ AbandonedQuietly(r))

(* ---------------------------------------------------------------------- *)
(* C20                                                                     *)
(* ---------------------------------------------------------------------- *)

SameArguments(r, q) ==
  /\ runs[r].stock = runs[q].stock
  /\ runs[r].sector = runs[q].sector
  /\ runs[r].capfocus = runs[q].capfocus
  /\ runs[r].risk_level = runs[q].risk_level

(* The argument of the call that goes with a key of the map. *)
Argument(r, slot) ==
  CASE slot = "stock" -> runs[r].stock
    [] slot = "sector" -> runs[r].sector
    [] slot = "capfocus" -> runs[r].capfocus
    [] slot = "risk" -> runs[r].risk_level

(* C20: the substitution map depends on the four arguments only: two     *)
(* runs called with the same four arguments have the same map whatever   *)
(* names they were called with, and an argument supplied for a parameter *)
(* the selected definition does not recognize, whose field is hidden, is *)
(* in the map all the same (the ticker in upper case).                    *)
C20_MapIgnoresSelection ==
  /\ \A r, q \in Runs :
       (ParamsBuilt(r) /\ ParamsBuilt(q) /\ SameArguments(r, q)) =>
         runs[r].format_params = runs[q].format_params
  /\ \A r \in Runs :
       ParamsBuilt(r) =>
         \A slot \in {"stock", "sector", "capfocus", "risk"} :
           (~Recognized(runs[r].analysis_name, slot)
              /\ ~AbsentOrEmpty(Argument(r, slot))) =>
             runs[r].format_params[slot] =
               (IF slot = "stock" THEN Upper(Argument(r, slot).s)
                ELSE Argument(r, slot).s)

(* Two runs with different names, one whose definition recognizes the    *)
(* sector and one whose definition does not, have built the same map,    *)
(* with the sector that was typed in.                                     *)
C20_Witness ==
  /\ ParamsBuilt("a") /\ ParamsBuilt("b")
  /\ runs["a"].analysis_name # runs["b"].analysis_name
  /\ ~Recognized(runs["a"].analysis_name, "sector")
  /\ Recognized(runs["b"].analysis_name, "sector")
  /\ runs["a"].format_params.sector = << "Tech" >>
  /\ runs["a"].format_params = runs["b"].format_params

(* ---------------------------------------------------------------------- *)
(* C21                                                                     *)
(* ---------------------------------------------------------------------- *)

(* The service has replied with text that is no JSON. *)
ReplyNotJson == vision.reply # Unbound /\ ~vision.reply.json

C22_CatalogNeverMutated ==
  /\ Len(ANALYSES) = Len(Catalog(module))
  /\ \A i \in 1..Len(ANALYSES) : ANALYSES[i] = Catalog(module)[i]

(* A run of a definition that is not the first of the catalog has ended  *)
(* and update_visibility has been called.                                 *)
C22_Witness ==
  /\ Ended("a")
  /\ runs["a"].selected = 2
  /\ Len(runs["a"].yields) > 0
  /\ Len(calls) = 1

(* ---------------------------------------------------------------------- *)
(* C23                                                                     *)
(* ---------------------------------------------------------------------- *)

(* The run was called with the name of a definition, has its client and  *)
(* has executed line 102.                                                 *)
PastRendering(r) ==
  /\ CredentialSet
  /\ runs[r].selected # 0
  /\ runs[r].clients = 1
  /\ runs[r].pc \notin {"L101", "L102"}

(* C23: for every definition of every catalog, a run called with its     *)
(* name and a credential renders its template with the map of the four   *)
(* keys without any exception: past line 102 the run has its prompt, the *)
(* exception it may have is one of the service, and as long as the       *)
(* provider raises nothing it has no error message among its yields.     *)
C23_EveryDefinitionRenders ==
  \A r \in Runs :
    PastRendering(r) =>
      /\ Format(Definition(r).prompt_template, runs[r].format_params).ok
      /\ runs[r].prompt =
           Format(Definition(r).prompt_template, runs[r].format_params).out
      /\ runs[r].exc \in {NoExc} \cup ServiceErrors
      /\ runs[r].exc = NoExc => runs[r].yields = Snapshots(runs[r].received)

(* ---------------------------------------------------------------------- *)
(* C24                                                                     *)
(* ---------------------------------------------------------------------- *)

(* The two runs were called with the same value for every parameter      *)
(* whose placeholder occurs in the template.                              *)
AgreeOnReferenced(r, q, template) ==
  \A slot \in {"stock", "sector", "capfocus", "risk"} :
    HasPlaceholder(template, slot) => Argument(r, slot) = Argument(q, slot)

(* The user turn the run has put in its chat. *)
UserTurn(r) == runs[r].chat[2].content

(* C24: the prompt depends only on the parameters the selected template  *)
(* refers to: two runs with the same selection whose arguments are the   *)
(* same for every placeholder of the template have rendered the same     *)
(* prompt and send the same user turn, whatever their other arguments.   *)
C24_PromptIgnoresUnreferenced ==
  \A r, q \in Runs :
    (/\ Rendered(r) /\ Rendered(q)
     /\ runs[r].selected = runs[q].selected
     /\ AgreeOnReferenced(r, q, Definition(r).prompt_template)) =>
      /\ runs[r].prompt = runs[q].prompt
      /\ (runs[r].chat # << >> /\ runs[q].chat # << >>) =>
           UserTurn(r) = UserTurn(q)

(* Two runs of the definition whose template refers to the stock only,   *)
(* called with different sectors, have sent the same user turn.           *)
C24_Witness ==
  /\ runs["a"].selected = 1 /\ runs["b"].selected = 1
  /\ ~HasPlaceholder(Definition("a").prompt_template, "sector")
  /\ runs["a"].sector # runs["b"].sector
  /\ runs["a"].format_params # runs["b"].format_params
  /\ runs["a"].chat # << >> /\ runs["b"].chat # << >>
  /\ UserTurn("a") = UserTurn("b")
  /\ Contains(UserTurn("a"), << "TSLA" >>)

(* ---------------------------------------------------------------------- *)
(* C25                                                                     *)
(* ---------------------------------------------------------------------- *)

(* The argument is written with braces, like a placeholder. *)
HasBraces(v) == ~v.isNone /\ \E i \in 1..Len(v.s) : v.s[i] \in {"{", "}"}

(* The argument as the map holds it: the ticker upper-cased. *)
Verbatim(r, slot) ==
  IF slot = "stock" THEN Upper(Argument(r, slot).s) ELSE Argument(r, slot).s

(* The map of a call that leaves its four arguments out. *)
PlainParams == FormatParams(PyNone, PyNone, PyNone, PyNone)

(* C25: substitution is single-pass.  In a run called with an argument   *)
(* written like a placeholder, the rendering fails only if the template  *)
(* fails with plain arguments too; the map holds the argument as it is   *)
(* (the ticker upper-cased); the prompt is the template with each        *)
(* placeholder replaced once by its map entry, so that the argument      *)
(* stands in the prompt as written wherever the template refers to it.   *)
C25_SinglePass ==
  \A r \in Runs :
    (/\ runs[r].selected # 0 /\ runs[r].clients = 1
     /\ runs[r].pc \notin {"L101", "L102"}
     /\ \E slot \in {"stock", "sector", "capfocus", "risk"} :
          HasBraces(Argument(r, slot))) =>
      LET template == Definition(r).prompt_template
      IN /\ Format(template, runs[r].format_params).ok
              = Format(template, PlainParams).ok
         /\ Format(template, PlainParams).ok =>
              /\ runs[r].exc \in {NoExc} \cup ServiceErrors
              /\ runs[r].prompt = Substituted(template, 1, runs[r].format_params)
              /\ \A slot \in {"stock", "sector", "capfocus", "risk"} :
                   HasBraces(Argument(r, slot)) =>
                     /\ runs[r].format_params[slot] = Verbatim(r, slot)
                     /\ HasPlaceholder(template, slot) =>
                          Contains(runs[r].prompt, Verbatim(r, slot))

(* A run called with the ticker and the sector written as the risk       *)
(* placeholder and the risk "high" has sent a user turn in which the     *)
(* sector stands as written and "high" does not occur.                    *)
C25_Witness ==
  \E r \in Runs :
    /\ runs[r].sector = Str(<< "{", "risk", "}" >>)
    /\ runs[r].stock = Str(<< "{", "risk", "}" >>)
    /\ ParamsBuilt(r)
    /\ runs[r].format_params.stock = << "{", "RISK", "}" >>
    /\ runs[r].risk_level = Str(<< "high" >>)
    /\ runs[r].chat # << >>
    /\ HasPlaceholder(Definition(r).prompt_template, "sector")
    /\ Contains(UserTurn(r), << "{", "risk", "}" >>)
    /\ \A i \in 1..Len(UserTurn(r)) : UserTurn(r)[i] # "high"

(* ---------------------------------------------------------------------- *)
(* C26                                                                     *)
(* ---------------------------------------------------------------------- *)

Selectable(v) ==
  \E i \in 1..Len(Choices(ANALYSES)) : v = Str(<< Choices(ANALYSES)[i] >>)

(* C26: the visibility the four fields are constructed with is what      *)
(* update_visibility returns for the default selection, the first entry  *)
(* of the catalog; the names offered for selection are the names of the  *)
(* catalog in its order; so every name that can be selected is found by  *)
(* the lookup, and a run called with one never yields the                *)
(* invalid-selection message.                                             *)
C26_StartupMatchesCatalog ==
  /\ DefaultSelection(ANALYSES) = ANALYSES[1].name
  /\ update_visibility(ANALYSES, Str(<< DefaultSelection(ANALYSES) >>))
       = [raised |-> "", value |-> InitialVisibility]
  /\ \A i \in 1..Len(calls) :
       calls[i].choice = Str(<< DefaultSelection(ANALYSES) >>) =>
         calls[i].outcome.value = InitialVisibility
  /\ Len(Choices(ANALYSES)) = Len(ANALYSES)
  /\ \A i \in 1..Len(ANALYSES) :
       /\ Choices(ANALYSES)[i] = ANALYSES[i].name
       /\ Lookup(ANALYSES, Str(<< Choices(ANALYSES)[i] >>)) = i
  /\ \A r \in Runs :
       Selectable(runs[r].analysis_name) =>
         /\ \A k \in 1..Len(runs[r].yields) :
              runs[r].yields[k] # InvalidSelectionMessage
         /\ runs[r].pc \notin {"idle", "L84", "L85", "L88"} =>
              (CredentialSet => runs[r].selected # 0)

(* The selection has been set back to the default, for which             *)
(* update_visibility has returned the start-up visibility, and a run of  *)
(* the second name offered has found its definition.                      *)
C26_Witness ==
  /\ Len(calls) = 1
  /\ calls[1].choice = Str(<< DefaultSelection(ANALYSES) >>)
  /\ calls[1].outcome.value = InitialVisibility
  /\ runs["a"].analysis_name = Str(<< Choices(ANALYSES)[2] >>)
  /\ runs["a"].selected = 2
  /\ runs["a"].prompt # << >>
====
